---- MODULE Spec2Model ----
(***************************************************************************)
(* Model of the Format-Interface-Generator: the YAML validator             *)
(* (validator.go), the emission loop of GenerateCode                       *)
(* (generator/generator.go), the bootstrap / generation drivers (main.go)  *)
(* the generated Read / Write codecs of the simplebmp package, the key     *)
(* normalisation of the validator (lowercaseFieldKeysRecursive), the field *)
(* blocks of the struct template, the expression function                  *)
(* CalculatePaddedSize (utils/get_expressions.go), and the output          *)
(* directory under GenerateCode's stub removal and the two resets          *)
(* (utils/reset_generator.go, reset_generator.go).                         *)
(*                                                                         *)
(* Go strings are modelled as sequences of one-character strings, so that  *)
(* strings.TrimSpace, strconv.Atoi and strings.Title are computed on the   *)
(* characters.  Bytes are numbers in 0..255, byte slices are sequences.    *)
(***************************************************************************)
EXTENDS Integers, Sequences, FiniteSets, TLC

VARIABLES
    \* --- ValidateAndReformYAML applied to one descriptor ---
    vInput,      \* the decoded descriptor handed to the first run
    vRuns,       \* the results of the runs made so far (at most two)
    \* --- step 4 of ValidateAndReformYAML: key normalisation ---
    genericData,     \* what yaml.Unmarshal built from the document
    lowerCasedData,  \* what lowercaseFieldKeysRecursive returned for it
    \* --- the generated codecs (simplebmp.Header, simplebmp.ImageData) ---
    cRec,        \* which record type is exercised
    cVal,        \* the record value handed to Write
    cPc,         \* "start", "written", "fed", "read"
    cWrite,      \* result of Write: bytes emitted, fields written, error
    cInput,      \* the bytes the reader holds
    cRead,       \* result of Read: record decoded, fields read, bytes consumed, error
    \* --- the Read block the template generates for one field ---
    tField,      \* the field of the descriptor
    tInput,      \* the bytes the reader holds
    tRuns,       \* the reads made so far (at most one)
    \* --- a call of the expression function CalculatePaddedSize ---
    eArgs,       \* the arguments govaluate passes
    eResult,     \* what the call returned, once made
    \* --- GenerateCode applied to one descriptor ---
    gStructs,    \* fileFormat.Structs of the descriptor
    gFail,       \* records whose template execution or file write fails
    gDir,        \* the output directory: file name -> generated code
    gRuns,       \* the results of the runs made so far (at most two)
    \* --- one call of GenerateCode or of reset on an output directory ---
    fDir,        \* the output directory: absent, or entry name -> entry
    fLast,       \* the call made, once made: arguments, directory before / after
    \* --- the drivers: runBootstrap / runGeneration ---
    source,      \* sources/<f>.yml : descriptor
    outDir,      \* formats/<f>/ : reformed YAML and generated files
    configs,     \* formats.json : sequence of FormatConfig
    lastRun      \* what the last driver run did, per processed format

vars == <<vInput, vRuns, genericData, lowerCasedData,
          cRec, cVal, cPc, cWrite, cInput, cRead,
          tField, tInput, tRuns, eArgs, eResult,
          gStructs, gFail, gDir, gRuns, fDir, fLast,
          source, outDir, configs, lastRun>>

validatorVars == <<vInput, vRuns, genericData, lowerCasedData>>
templateVars  == <<tField, tInput, tRuns>>
exprVars      == <<eArgs, eResult>>
codecVars     == <<cRec, cVal, cPc, cWrite, cInput, cRead, templateVars, exprVars>>
filesVars     == <<fDir, fLast>>
genVars       == <<gStructs, gFail, gDir, gRuns, filesVars>>
driverVars    == <<source, outDir, configs, lastRun>>

\* A part of the program a specification does not exercise stays idle.
Idle == "idle"
ValidatorIdle == /\ vInput = Idle /\ vRuns = Idle
                 /\ genericData = Idle /\ lowerCasedData = Idle
TemplateIdle  == tField = Idle /\ tInput = Idle /\ tRuns = Idle
ExprIdle      == eArgs = Idle /\ eResult = Idle
SimpleBmpIdle == /\ cRec = Idle /\ cVal = Idle /\ cPc = Idle
                 /\ cWrite = Idle /\ cInput = Idle /\ cRead = Idle
CodecIdle     == SimpleBmpIdle /\ TemplateIdle /\ ExprIdle
FilesIdle     == fDir = Idle /\ fLast = Idle
EmitIdle      == gStructs = Idle /\ gFail = Idle /\ gDir = Idle /\ gRuns = Idle
GenIdle       == EmitIdle /\ FilesIdle
DriverIdle    == source = Idle /\ outDir = Idle /\ configs = Idle /\ lastRun = Idle

(***************************************************************************)
(* Bounds of the model.                                                    *)
(***************************************************************************)
\* Total number of fields of a descriptor handed to the validator.
MaxFields == 2

\* Number of GenerateCode runs made on one descriptor.
MaxGenRuns == 2

\* Longest Signature and longest PixelData handed to the generated Write.
MaxSigLen == 3
MaxPixelLen == 3

(***************************************************************************)
(* Strings.                                                                *)
(***************************************************************************)
EmptyStr == <<>>

IsSpace(c) == c \in {" ", "\t", "\n", "\r"}

RECURSIVE TrimLeft(_)
TrimLeft(s) == IF s # <<>> /\ IsSpace(Head(s)) THEN TrimLeft(Tail(s)) ELSE s

RECURSIVE TrimRight(_)
TrimRight(s) ==
    IF s # <<>> /\ IsSpace(s[Len(s)]) THEN TrimRight(SubSeq(s, 1, Len(s) - 1)) ELSE s

\* strings.TrimSpace
TrimSpace(s) == TrimRight(TrimLeft(s))

Digits == {"0", "1", "2", "3", "4", "5", "6", "7", "8", "9"}

DigitVal(c) ==
    CASE c = "0" -> 0 [] c = "1" -> 1 [] c = "2" -> 2 [] c = "3" -> 3
      [] c = "4" -> 4 [] c = "5" -> 5 [] c = "6" -> 6 [] c = "7" -> 7
      [] c = "8" -> 8 [] c = "9" -> 9

RECURSIVE DigitsVal(_, _)
DigitsVal(s, acc) ==
    IF s = <<>> THEN acc ELSE DigitsVal(Tail(s), acc * 10 + DigitVal(Head(s)))

\* strconv.Atoi: an optional sign, then one or more decimal digits and nothing else.
Atoi(s) ==
    LET signed == s # <<>> /\ Head(s) \in {"+", "-"}
        body   == IF signed THEN Tail(s) ELSE s
        ok     == body # <<>> /\ \A i \in 1..Len(body) : body[i] \in Digits
        mag    == IF ok THEN DigitsVal(body, 0) ELSE 0
    IN  [ok  |-> ok,
         val |-> IF signed /\ Head(s) = "-" THEN 0 - mag ELSE mag]

\* The string literals of the validator and of the descriptors.
Ellipsis          == <<".", ".", ".">>
NeedsManualLength == <<"N", "E", "E", "D", "S", "_", "M", "A", "N", "U", "A", "L",
                       "_", "L", "E", "N", "G", "T", "H">>
TString == <<"s", "t", "r", "i", "n", "g">>
TBytes  == <<"[", "]", "b", "y", "t", "e">>
TUint32 == <<"u", "i", "n", "t", "3", "2">>

(***************************************************************************)
(* The descriptor model (application_structs).                             *)
(***************************************************************************)
\* application_structs.Field: the attributes the validator and generator read.
Field(n, t, l, c) == [name |-> n, type |-> t, length |-> l, condition |-> c]

\* Field.IsConditional
IsConditional(f) == f.condition # EmptyStr

\* Field.IsExpressionLength
IsExpressionLength(f) == f.length # EmptyStr /\ ~Atoi(f.length).ok

\* Field.Validate: the check of one field that application_structs offers.
FieldValidate(f) ==
    IF f.name = EmptyStr THEN "field name cannot be empty"
    ELSE IF f.type = EmptyStr THEN "type cannot be empty"
    ELSE IF f.type \in {TBytes, TString} /\ f.length = EmptyStr
         THEN "length must be specified"
    ELSE "ok"

\* generator.IsValidLengthExpression
IsValidLengthExpression(expr) ==
    LET trimmed == TrimSpace(expr)
    IN  ~(trimmed = EmptyStr \/ trimmed = Ellipsis)

(***************************************************************************)
(* ValidateAndReformYAML (validator.go).                                   *)
(***************************************************************************)
\* Steps 8-9 and 3-5: what yaml.Marshal writes for a Field (length and condition
\* carry omitempty) and what Unmarshal + key normalisation + mapstructure
\* decode read back (a missing key leaves the zero value).
\* yaml.Marshal of the Field of structs/structs.go, which declares no
\* Condition.
MarshalFieldWithoutCondition(f) ==
    LET keys == {"name", "type"} \cup (IF f.length # EmptyStr THEN {"length"} ELSE {})
    IN  [k \in keys |-> CASE k = "name" -> f.name
                          [] k = "type" -> f.type
                          [] k = "length" -> f.length]

MarshalField(f) ==
    LET keys == {"name", "type"}
                \cup (IF f.length # EmptyStr THEN {"length"} ELSE {})
                \cup (IF f.condition # EmptyStr THEN {"condition"} ELSE {})
    IN  [k \in keys |-> CASE k = "name" -> f.name
                          [] k = "type" -> f.type
                          [] k = "length" -> f.length
                          [] k = "condition" -> f.condition]

MarshalYAML(structs) ==
    [r \in DOMAIN structs |->
        [i \in 1..Len(structs[r]) |-> MarshalField(structs[r][i])]]

DecodeField(m) ==
    LET get(k) == IF k \in DOMAIN m THEN m[k] ELSE EmptyStr
    IN  Field(get("name"), get("type"), get("length"), get("condition"))

DecodeYAML(doc) ==
    [r \in DOMAIN doc |-> [i \in 1..Len(doc[r]) |-> DecodeField(doc[r][i])]]

\* The length checks with `lengthInt < 0` for `lengthInt <= 0`.
LengthErrorsZeroAllowed(length) ==
    LET conv == Atoi(length)
    IN  IF conv.ok
        THEN (IF conv.val < 0 THEN 1 ELSE 0)
        ELSE (IF ~IsValidLengthExpression(length) THEN 1 ELSE 0)

\* The length checks with every length that is no integer counted as an error.
LengthErrorsIntegersOnly(length) ==
    LET conv == Atoi(length)
    IN  IF conv.ok THEN (IF conv.val <= 0 THEN 1 ELSE 0) ELSE 1

\* The length checks of a string / []byte field, after the placeholder reform
\* (validator.go lines 180-197): the number of hard errors they count.
LengthErrors(length) ==
    LET conv == Atoi(length)
    IN  IF conv.ok
        THEN (IF conv.val <= 0 THEN 1 ELSE 0)
        ELSE (IF ~IsValidLengthExpression(length) THEN 1 ELSE 0)

\* The condition check (validator.go lines 209-216).
ConditionErrors(f) ==
    IF IsConditional(f) /\ TrimSpace(f.condition) = EmptyStr THEN 1 ELSE 0

\* The placeholder reform of a string / []byte field: the new length and the
\* number of reformations counted (validator.go lines 175-179).
ReformLength(length) ==
    IF TrimSpace(length) = Ellipsis
    THEN [length |-> NeedsManualLength, reformations |-> 1]
    ELSE [length |-> length, reformations |-> 0]

\* The field loop written with a by-value range variable: the checks and the
\* counter see the reformed copy, the descriptor keeps the field as it was.
ValidateFieldByValue(f) ==
    IF TrimSpace(f.type) = EmptyStr
    THEN [field |-> f, reformations |-> 0, errors |-> 1]
    ELSE IF f.type \in {TString, TBytes}
    THEN IF f.length = EmptyStr
         THEN [field |-> f, reformations |-> 0, errors |-> 1]
         ELSE LET r  == ReformLength(f.length)
                  f2 == [f EXCEPT !.length = r.length]
              IN  [field |-> f, reformations |-> r.reformations,
                   errors |-> LengthErrors(f2.length) + ConditionErrors(f2)]
    ELSE [field |-> f, reformations |-> 0, errors |-> ConditionErrors(f)]

\* One iteration of the field loop (validator.go lines 157-222): the field as it
\* is left in the descriptor, the reformations and the hard errors it adds.
\* The field loop without the test for an empty length.
ValidateFieldLengthOptional(f) ==
    IF TrimSpace(f.type) = EmptyStr
    THEN [field |-> f, reformations |-> 0, errors |-> 1]
    ELSE IF f.type \in {TString, TBytes} /\ f.length # EmptyStr
    THEN LET r  == ReformLength(f.length)
             f2 == [f EXCEPT !.length = r.length]
         IN  [field |-> f2, reformations |-> r.reformations,
              errors |-> LengthErrors(f2.length) + ConditionErrors(f2)]
    ELSE [field |-> f, reformations |-> 0, errors |-> ConditionErrors(f)]

ValidateField(f) ==
    IF TrimSpace(f.type) = EmptyStr
    THEN [field |-> f, reformations |-> 0, errors |-> 1]
    ELSE IF f.type \in {TString, TBytes}
    THEN IF f.length = EmptyStr
         THEN [field |-> f, reformations |-> 0, errors |-> 1]
         ELSE LET r  == ReformLength(f.length)
                  f2 == [f EXCEPT !.length = r.length]
              IN  [field |-> f2, reformations |-> r.reformations,
                   errors |-> LengthErrors(f2.length) + ConditionErrors(f2)]
    ELSE [field |-> f, reformations |-> 0, errors |-> ConditionErrors(f)]

RECURSIVE SumSeq(_)
SumSeq(s) == IF s = <<>> THEN 0 ELSE Head(s) + SumSeq(Tail(s))

RECURSIVE SumOver(_, _)
SumOver(S, f) ==
    IF S = {} THEN 0
    ELSE LET x == CHOOSE y \in S : TRUE IN f[x] + SumOver(S \ {x}, f)

\* The reformed YAML file: absent, or one document.
NoFile == {}

\* ValidateAndReformYAML from the decoded descriptor on (validator.go lines
\* 150-249): the loop over every field of every struct, the abort on hard
\* errors, and the write of the reformed YAML.
ValidateAndReformYAML(structs) ==
    LET reformed == [r \in DOMAIN structs |->
                        [i \in 1..Len(structs[r]) |-> ValidateField(structs[r][i]).field]]
        reformationsMade ==
            SumOver(DOMAIN structs,
                    [r \in DOMAIN structs |->
                        SumSeq([i \in 1..Len(structs[r]) |->
                                   ValidateField(structs[r][i]).reformations])])
        validationErrors ==
            SumOver(DOMAIN structs,
                    [r \in DOMAIN structs |->
                        SumSeq([i \in 1..Len(structs[r]) |->
                                   ValidateField(structs[r][i]).errors])])
    IN  [input            |-> structs,
         fileFormat       |-> reformed,
         reformationsMade |-> reformationsMade,
         validationErrors |-> validationErrors,
         err              |-> validationErrors > 0,
         written          |-> IF validationErrors > 0 THEN NoFile
                              ELSE {MarshalYAML(reformed)}]

(***************************************************************************)
(* The descriptors the validator is applied to.                            *)
(***************************************************************************)
Blank         == <<" ">>
PaddedEllipsis == <<" ", ".", ".", ".", " ">>
TCustom       == <<"V", "e", "c">>
LenTwo        == <<"2">>
LenZero       == <<"0">>
LenNegative   == <<"-", "1">>
LenExpression == <<"s", ".", "W", "*", "3">>
LenUnparsable == <<"(", "(">>
CondExpression == <<"s", ".", "F", ">", "0">>
FieldName     == <<"f">>

\* Fields covering every branch of the field loop: each length shape on a
\* string field, the placeholder on every kind of type, missing names and
\* types, and present, blank and absent conditions.
FieldUniverse ==
    {Field(FieldName, TString, l, EmptyStr) :
        l \in {EmptyStr, Blank, Ellipsis, PaddedEllipsis, LenTwo, LenZero,
               LenNegative, LenExpression, LenUnparsable, NeedsManualLength}}
    \cup {Field(FieldName, TBytes, l, EmptyStr) :
            l \in {EmptyStr, Ellipsis, LenTwo, LenZero, LenExpression}}
    \cup {Field(FieldName, t, l, EmptyStr) :
            t \in {TUint32, TCustom}, l \in {EmptyStr, Ellipsis}}
    \cup {Field(FieldName, TUint32, LenZero, EmptyStr)}
    \cup {Field(FieldName, t, EmptyStr, EmptyStr) : t \in {EmptyStr, Blank}}
    \cup {Field(EmptyStr, t, l, EmptyStr) :
            t \in {TUint32}, l \in {EmptyStr}}
    \cup {Field(EmptyStr, TString, LenTwo, EmptyStr)}
    \cup {Field(FieldName, TUint32, EmptyStr, c) : c \in {Blank, CondExpression}}
    \cup {Field(FieldName, TString, Ellipsis, CondExpression)}

RecA == <<"A">>
RecB == <<"B">>

\* Descriptors of two records with at most MaxFields fields in all.
InitValidate ==
    /\ \E i \in 0..MaxFields : \E j \in 0..(MaxFields - i) :
           \E a \in [1..i -> FieldUniverse], b \in [1..j -> FieldUniverse] :
               vInput = (RecA :> a) @@ (RecB :> b)
    /\ vRuns = <<>>
    /\ genericData = Idle /\ lowerCasedData = Idle
    /\ CodecIdle /\ GenIdle /\ DriverIdle

\* The first run, on the decoded source descriptor.
FirstValidation ==
    /\ vRuns = <<>>
    /\ vRuns' = <<ValidateAndReformYAML(vInput)>>
    /\ UNCHANGED <<vInput, genericData, lowerCasedData,
                   codecVars, genVars, driverVars>>

\* A second run, on the reformed YAML the first run saved.
SecondValidation ==
    /\ Len(vRuns) = 1
    /\ vRuns[1].written # NoFile
    /\ \E doc \in vRuns[1].written :
           vRuns' = Append(vRuns, ValidateAndReformYAML(DecodeYAML(doc)))
    /\ UNCHANGED <<vInput, genericData, lowerCasedData,
                   codecVars, genVars, driverVars>>

NextValidate == FirstValidation \/ SecondValidation

SpecValidate == InitValidate /\ [][NextValidate]_vars

(***************************************************************************)
(* Properties of the validator.                                            *)
(***************************************************************************)
\* All the fields of a descriptor, as <<record, index>> positions.
Positions(structs) ==
    UNION {{<<r, i>> : i \in 1..Len(structs[r])} : r \in DOMAIN structs}

\* C8: placeholder reform.  After a run of ValidateAndReformYAML, every field
\* whose trimmed length is "..." has the length NEEDS_MANUAL_LENGTH in the
\* resulting descriptor, and the reformation counter equals the number of such
\* fields (one per field, whatever the other fields are).
C8_PlaceholderReformed ==
    \A k \in 1..Len(vRuns) :
        LET run  == vRuns[k]
            dots == {p \in Positions(run.input) :
                        TrimSpace(run.input[p[1]][p[2]].length) = Ellipsis}
        IN  /\ \A p \in dots :
                   run.fileFormat[p[1]][p[2]].length = NeedsManualLength
            /\ run.reformationsMade = Cardinality(dots)

\* C9: validator idempotence.  A run on the reformed YAML that a successful
\* run saved reports no reformation and no validation error, and its
\* descriptor (and the YAML it saves) is identical to its input.
C9_ValidatorIdempotent ==
    Len(vRuns) = 2 =>
        /\ vRuns[2].reformationsMade = 0
        /\ vRuns[2].validationErrors = 0
        /\ ~vRuns[2].err
        /\ vRuns[2].fileFormat = vRuns[2].input
        /\ vRuns[2].input = vRuns[1].fileFormat
        /\ vRuns[2].written = vRuns[1].written

\* C9 witness: a second run was made on the output of a run that reformed a
\* placeholder.
C9_SecondRunAfterReform ==
    /\ Len(vRuns) = 2
    /\ vRuns[1].reformationsMade > 0
    /\ \E p \in Positions(vInput) : vInput[p[1]][p[2]].length = PaddedEllipsis

\* C10: after a successful run every field of the resulting descriptor has a
\* non-empty name and a non-empty type, and a field with an empty name or an
\* empty type makes the run fail.
C10_NameAndTypePresent ==
    \A k \in 1..Len(vRuns) :
        LET run == vRuns[k]
        IN  /\ ~run.err =>
                   \A p \in Positions(run.fileFormat) :
                       /\ run.fileFormat[p[1]][p[2]].name # EmptyStr
                       /\ run.fileFormat[p[1]][p[2]].type # EmptyStr
            /\ (\E p \in Positions(run.input) :
                    \/ run.input[p[1]][p[2]].name = EmptyStr
                    \/ run.input[p[1]][p[2]].type = EmptyStr)
               => run.err

(***************************************************************************)
(* Who hands a length to the expression parser.                            *)
(***************************************************************************)
\* validator.go lines 169-196: the field loop calls
\* govaluate.NewEvaluableExpressionWithFunctions on the (reformed) length of a
\* string / []byte field that is no integer, passes IsValidLengthExpression and
\* is not the placeholder.
ValidatorParsesLength(f) ==
    /\ f.type \in {TString, TBytes}
    /\ f.length # EmptyStr
    /\ LET length == ReformLength(f.length).length
       IN  /\ ~Atoi(length).ok
           /\ IsValidLengthExpression(length)
           /\ length # NeedsManualLength

\* The inline validation of the earlier GenerateCode: the same chain without
\* the placeholder test, so every non-integer length that passes
\* isValidLengthExpression is parsed.
GeneratorParsesLength(f) ==
    /\ f.type \in {TString, TBytes}
    /\ f.length # EmptyStr
    /\ ~Atoi(f.length).ok
    /\ IsValidLengthExpression(f.length)

\* The import scan of the earlier GenerateCode: a string / []byte field whose
\* length Atoi rejects sets needsGovaluate.
NeedsGovaluate(f) ==
    /\ f.type \in {TString, TBytes}
    /\ ~Atoi(f.length).ok

\* C11: the placeholder is never treated as an expression.  For every field
\* that leaves a run of the validator with the length NEEDS_MANUAL_LENGTH, the
\* validator did not hand the length to the expression parser,
\* Field.IsExpressionLength is false, and GenerateCode neither parses the
\* length nor marks the field as needing the expression evaluator.
C11_PlaceholderNeverExpression ==
    \A k \in 1..Len(vRuns) :
        \A p \in Positions(vRuns[k].fileFormat) :
            LET f == vRuns[k].fileFormat[p[1]][p[2]]
            IN  (f.type \in {TString, TBytes} /\ f.length = NeedsManualLength) =>
                    /\ ~ValidatorParsesLength(vRuns[k].input[p[1]][p[2]])
                    /\ ~IsExpressionLength(f)
                    /\ ~GeneratorParsesLength(f)
                    /\ ~NeedsGovaluate(f)

\* The condition attribute is absent, or holds more than white space.
ConditionFine(f) == f.condition = EmptyStr \/ TrimSpace(f.condition) # EmptyStr

\* The string / []byte fields of a descriptor whose length strconv.Atoi accepts.
IntegerLengths(structs) ==
    {p \in Positions(structs) :
        /\ structs[p[1]][p[2]].type \in {TString, TBytes}
        /\ Atoi(structs[p[1]][p[2]].length).ok}

\* C17: a string / []byte field whose length parses as an integer n.  With
\* n <= 0 the run counts a hard error and fails; with n > 0 the field is left as
\* it is, and a descriptor made of such fields only passes with no error and no
\* reformation.
C17_IntegerLength ==
    \A k \in 1..Len(vRuns) :
        LET run == vRuns[k]
            n(p) == Atoi(run.input[p[1]][p[2]].length).val
        IN  /\ \A p \in IntegerLengths(run.input) :
                   IF n(p) <= 0
                   THEN run.err /\ run.validationErrors >= 1
                   ELSE run.fileFormat[p[1]][p[2]] = run.input[p[1]][p[2]]
            /\ (/\ IntegerLengths(run.input) = Positions(run.input)
                /\ \A p \in Positions(run.input) :
                       n(p) > 0 /\ ConditionFine(run.input[p[1]][p[2]]))
               => (~run.err /\ run.validationErrors = 0 /\ run.reformationsMade = 0)

\* C17 witness: a run on a descriptor with a string and a []byte field of
\* length 2 passed.
C17_PositiveLengthsPassed ==
    /\ vInput = (RecA :> <<Field(FieldName, TString, LenTwo, EmptyStr)>>)
                @@ (RecB :> <<Field(FieldName, TBytes, LenTwo, EmptyStr)>>)
    /\ Len(vRuns) >= 1
    /\ ~vRuns[1].err

\* C18: a field whose condition attribute is present but empty or blank is a
\* hard error.  Every run on a descriptor decoded from a document with such a
\* field entry fails.
C18_BlankConditionRejected ==
    \A k \in 1..Len(vRuns) :
        \A p \in Positions(vRuns[k].input) :
            \A c \in {EmptyStr, Blank} :
                vRuns[k].input[p[1]][p[2]]
                    = DecodeField([name |-> FieldName, type |-> TUint32, condition |-> c])
                => vRuns[k].err

\* C19: a string / []byte field with an empty length is a hard error.  A run on
\* a descriptor with such a field counts an error, fails and writes no reformed
\* YAML, and Field.Validate rejects the field.
C19_EmptyLengthRejected ==
    \A k \in 1..Len(vRuns) :
        \A p \in Positions(vRuns[k].input) :
            LET f == vRuns[k].input[p[1]][p[2]]
            IN  (f.type \in {TString, TBytes} /\ f.length = EmptyStr) =>
                    /\ vRuns[k].validationErrors >= 1
                    /\ vRuns[k].err
                    /\ vRuns[k].written = NoFile
                    /\ FieldValidate(f) # "ok"

\* C19 witness: a run on a descriptor whose only field is a []byte field
\* with an empty length.
C19_EmptyLengthSeen ==
    /\ vInput = (RecA :> <<Field(FieldName, TBytes, EmptyStr, EmptyStr)>>)
                @@ (RecB :> <<>>)
    /\ Len(vRuns) >= 1

\* A field whose only finding can be a warning: a fixed-width or custom-typed
\* field with any length, or a string / []byte field whose length is a
\* positive integer or an expression.
WarningsAtMost(f) ==
    /\ f.name # EmptyStr
    /\ ConditionFine(f)
    /\ \/ f.type \in {TUint32, TCustom}
       \/ /\ f.type \in {TString, TBytes}
          /\ IF Atoi(f.length).ok THEN Atoi(f.length).val > 0
             ELSE TrimSpace(f.length) \notin {EmptyStr, Ellipsis}

\* A field that draws a warning: a length on a fixed-width or custom-typed
\* field, or an expression length the static parse rejects.
Warned(f) ==
    \/ f.type \in {TUint32, TCustom} /\ f.length # EmptyStr
    \/ f.type \in {TString, TBytes} /\ f.length = LenUnparsable

\* C20: warnings never abort.  A run on a descriptor whose only findings are
\* warnings returns no error, counts no validation error and writes the
\* reformed YAML.
C20_WarningsPass ==
    \A k \in 1..Len(vRuns) :
        LET run    == vRuns[k]
            fields == {run.input[p[1]][p[2]] : p \in Positions(run.input)}
        IN  ((\A f \in fields : WarningsAtMost(f)) /\ (\E f \in fields : Warned(f)))
                => /\ ~run.err
                   /\ run.validationErrors = 0
                   /\ run.written = {MarshalYAML(run.fileFormat)}

\* C20 witness: a run on a descriptor with a uint32 field that has a length
\* and a string field whose expression does not parse.
C20_WarnedRun ==
    /\ vInput = (RecA :> <<Field(FieldName, TUint32, LenZero, EmptyStr)>>)
                @@ (RecB :> <<Field(FieldName, TString, LenUnparsable, EmptyStr)>>)
    /\ Len(vRuns) >= 1

LowerLetters == <<"a", "b", "c", "d", "e", "f", "g", "h", "i", "j", "k", "l", "m",
                  "n", "o", "p", "q", "r", "s", "t", "u", "v", "w", "x", "y", "z">>
UpperLetters == <<"A", "B", "C", "D", "E", "F", "G", "H", "I", "J", "K", "L", "M",
                  "N", "O", "P", "Q", "R", "S", "T", "U", "V", "W", "X", "Y", "Z">>

IsLower(c) == \E i \in 1..Len(LowerLetters) : LowerLetters[i] = c
IsUpper(c) == \E i \in 1..Len(UpperLetters) : UpperLetters[i] = c
ToUpper(c) ==
    IF IsLower(c)
    THEN UpperLetters[CHOOSE i \in 1..Len(LowerLetters) : LowerLetters[i] = c]
    ELSE c

\* strings.Title's word boundary: letters, digits and the underscore belong to
\* a word, any other character separates words.
IsSeparator(c) == ~(IsLower(c) \/ IsUpper(c) \/ c \in Digits \/ c = "_")

RECURSIVE TitleFrom(_, _)
TitleFrom(s, atStart) ==
    IF s = <<>> THEN <<>>
    ELSE <<IF atStart THEN ToUpper(Head(s)) ELSE Head(s)>>
         \o TitleFrom(Tail(s), IsSeparator(Head(s)))

\* strings.Title: the first letter of every word in upper case.
Title(s) == TitleFrom(s, TRUE)

\* goFileName := strings.Title(structName) + ".go"
GoFileName(structName) == Title(structName) \o <<".", "g", "o">>

\* TemplateData, and with it the code the template renders for a struct.
TemplateData(structs, structName) ==
    [StructName |-> structName, Fields |-> structs[structName]]

NoErr == "nil"
ErrTemplate == "error executing template"
ErrWrite == "error writing generated code"

\* The loop over fileFormat.Structs, taken in the order `order` (generator.go lines
\* 228-351): per struct the template execution, then the write of its file; the
\* first failure returns.
RECURSIVE EmitLoop(_, _, _, _, _)
EmitLoop(structs, fail, order, dir, trace) ==
    IF order = <<>> THEN [dir |-> dir, trace |-> trace, err |-> NoErr]
    ELSE LET structName == Head(order)
             executed   == Append(trace, <<"execute", structName>>)
             written    == Append(executed, <<"write", structName>>)
             file       == GoFileName(structName)
         IN  IF structName \in fail.template
             THEN [dir |-> dir, trace |-> executed, err |-> ErrTemplate]
             ELSE IF structName \in fail.write
             THEN [dir |-> dir, trace |-> written, err |-> ErrWrite]
             ELSE EmitLoop(structs, fail, Tail(order),
                           [f \in DOMAIN dir \cup {file} |->
                               IF f = file THEN TemplateData(structs, structName)
                               ELSE dir[f]],
                           written)

\* The orders a Go `range` over a map can take: every permutation of the keys.
RECURSIVE RangeOrders(_)
RangeOrders(keys) ==
    IF keys = {} THEN {<<>>}
    ELSE UNION {{<<k>> \o rest : rest \in RangeOrders(keys \ {k})} : k \in keys}

\* Struct names, two of them differing in case only, and field lists.
StructNames == {<<"h">>, <<"H">>, <<"b">>}
FieldLists == {<<<<"W">>>>, <<<<"W">>, <<"P">>>>, <<<<"P">>, <<"W">>>>}

EmptyDir == <<>>

InitGen ==
    /\ \E names \in SUBSET StructNames : gStructs \in [names -> FieldLists]
    /\ \E t \in SUBSET DOMAIN gStructs, w \in SUBSET DOMAIN gStructs :
           /\ t \cap w = {}
           /\ Cardinality(t \cup w) <= 1
           /\ gFail = [template |-> t, write |-> w]
    /\ gDir = EmptyDir
    /\ gRuns = <<>>
    /\ FilesIdle
    /\ ValidatorIdle /\ CodecIdle /\ DriverIdle

\* GenerateCode(yamlFile, outputDir, packageName, ""): the emission loop in one
\* of the orders the map iteration can take.  The stub path is then the output
\* directory itself, which holds the YAML file, so the stub removal removes
\* nothing.
GenerateCode ==
    /\ Len(gRuns) < MaxGenRuns
    /\ \E order \in RangeOrders(DOMAIN gStructs) :
           LET out == EmitLoop(gStructs, gFail, order, gDir, <<>>)
           IN  /\ gDir' = out.dir
               /\ gRuns' = Append(gRuns, [before |-> gDir, after |-> out.dir,
                                          trace |-> out.trace, err |-> out.err])
    /\ UNCHANGED <<gStructs, gFail, filesVars, validatorVars, codecVars, driverVars>>

\* utils.Reset(outputDir): removes every *.go file of the output directory.
Reset ==
    /\ gDir # EmptyDir
    /\ gDir' = EmptyDir
    /\ UNCHANGED <<gStructs, gFail, gRuns, filesVars,
                   validatorVars, codecVars, driverVars>>

NextGen == GenerateCode \/ Reset

SpecGen == InitGen /\ [][NextGen]_vars

(***************************************************************************)
(* Properties of the emission loop.                                        *)
(***************************************************************************)
\* The byte order of the characters of a name, as Go compares strings.
CharRank(c) ==
    IF IsUpper(c) THEN CHOOSE i \in 1..Len(UpperLetters) : UpperLetters[i] = c
    ELSE IF IsLower(c)
    THEN Len(UpperLetters) + (CHOOSE i \in 1..Len(LowerLetters) : LowerLetters[i] = c)
    ELSE 0

RECURSIVE NameBefore(_, _)
NameBefore(a, b) ==
    IF a = <<>> THEN b # <<>>
    ELSE IF b = <<>> THEN FALSE
    ELSE IF Head(a) = Head(b) THEN NameBefore(Tail(a), Tail(b))
    ELSE CharRank(Head(a)) < CharRank(Head(b))

\* The structs a run executed the template for, in the order it did.
Executed(run) ==
    LET idx == {i \in 1..Len(run.trace) : run.trace[i][1] = "execute"}
    IN  [k \in 1..Cardinality(idx) |->
            run.trace[CHOOSE i \in idx : Cardinality({j \in idx : j < i}) = k - 1][2]]

\* C5: deterministic emission order.  Every run of GenerateCode takes the
\* records sorted by name, and two runs started on the same output directory
\* perform the same template executions and file writes and leave the same
\* files, also when they stop at a failing record.
C5_DeterministicEmission ==
    /\ \A i \in 1..Len(gRuns) :
           \A k \in 1..(Len(Executed(gRuns[i])) - 1) :
               NameBefore(Executed(gRuns[i])[k], Executed(gRuns[i])[k + 1])
    /\ \A i, j \in 1..Len(gRuns) :
           gRuns[i].before = gRuns[j].before =>
               /\ gRuns[i].trace = gRuns[j].trace
               /\ gRuns[i].after = gRuns[j].after

\* C6: record-scoped failure isolation.  Whatever record fails, every run of
\* GenerateCode executes the template and writes the file of every record that
\* does not fail.
C6_FailureIsolated ==
    \A i \in 1..Len(gRuns) :
        \A r \in DOMAIN gStructs \ (gFail.template \cup gFail.write) :
            /\ \E k \in 1..Len(gRuns[i].trace) : gRuns[i].trace[k] = <<"write", r>>
            /\ GoFileName(r) \in DOMAIN gRuns[i].after

\* C7: one source unit per record.  After a successful run on records with
\* pairwise distinct names, every record has its own file, holding its own
\* code, and there are as many files as records.
C7_OneFilePerRecord ==
    \A i \in 1..Len(gRuns) :
        gRuns[i].err = NoErr =>
            /\ \A r \in DOMAIN gStructs :
                   /\ GoFileName(r) \in DOMAIN gRuns[i].after
                   /\ gRuns[i].after[GoFileName(r)] = TemplateData(gStructs, r)
            /\ Cardinality(DOMAIN gRuns[i].after) = Cardinality(DOMAIN gStructs)

(***************************************************************************)
(* The generated codecs of package simplebmp: Header and ImageData.        *)
(***************************************************************************)
RecHeader == "Header"
RecImageData == "ImageData"

\* The fields of the two records in the order the struct types declare them.
DeclaredFields(rec) ==
    IF rec = RecHeader THEN <<"Signature", "FileSize", "Reserved", "DataOffset">>
    ELSE <<"Width", "Height", "PixelData">>

\* The value of a record variable before anything is read into it.
ZeroValue(rec) ==
    IF rec = RecHeader
    THEN [Signature |-> <<>>, FileSize |-> 0, Reserved |-> 0, DataOffset |-> 0]
    ELSE [Width |-> 0, Height |-> 0, PixelData |-> <<>>]

\* binary.Write(w, binary.LittleEndian, v) of a uint32.
PutUint32(v) ==
    <<v % 256, (v \div 256) % 256, (v \div 65536) % 256, (v \div 16777216) % 256>>

\* binary.LittleEndian.Uint32 of four bytes.
Uint32(b) == b[1] + 256 * b[2] + 65536 * b[3] + 16777216 * b[4]

ErrEOF == "EOF"
ErrUnexpectedEOF == "unexpected EOF"

\* binary.Read(r, binary.LittleEndian, &v) of a uint32 from the bytes of
\* `input` after `pos`: io.ReadFull of four bytes, then the decoding.
ReadUint32(input, pos) ==
    LET avail == Len(input) - pos
    IN  IF avail >= 4
        THEN [err |-> NoErr, val |-> Uint32(SubSeq(input, pos + 1, pos + 4)),
              pos |-> pos + 4]
        ELSE [err |-> IF avail = 0 THEN ErrEOF ELSE ErrUnexpectedEOF,
              val |-> 0, pos |-> Len(input)]

\* (s *Header) Write on a writer that accepts everything (a bytes.Buffer).
HeaderWrite(v) ==
    [bytes  |-> v.Signature \o PutUint32(v.FileSize) \o PutUint32(v.Reserved)
                \o PutUint32(v.DataOffset),
     fields |-> <<"Signature", "FileSize", "Reserved", "DataOffset">>,
     err    |-> NoErr]

\* (s *ImageData) Write.
ImageDataWrite(v) ==
    [bytes  |-> PutUint32(v.Width) \o PutUint32(v.Height),
     fields |-> <<"Width", "Height">>,
     err    |-> NoErr]

\* The reads of consecutive uint32 fields `names` into `rec`, from `pos` on;
\* the first error returns.
RECURSIVE ReadFields(_, _, _, _, _)
ReadFields(input, pos, names, rec, done) ==
    IF names = <<>>
    THEN [rec |-> rec, fields |-> done, consumed |-> pos, err |-> NoErr]
    ELSE LET r == ReadUint32(input, pos)
         IN  IF r.err # NoErr
             THEN [rec |-> rec, fields |-> done, consumed |-> r.pos, err |-> r.err]
             ELSE ReadFields(input, r.pos, Tail(names),
                             [rec EXCEPT ![Head(names)] = r.val],
                             Append(done, Head(names)))

\* (s *Header) Read into a zero Header, where the r.Read(b) of the two-byte
\* Signature buffer returns n bytes.
HeaderRead(input, n) ==
    IF n = 0
    THEN [rec |-> ZeroValue(RecHeader), fields |-> <<>>, consumed |-> 0,
          err |-> ErrEOF, sigBytes |-> 0]
    ELSE LET b    == [i \in 1..2 |-> IF i <= n THEN input[i] ELSE 0]
             rest == ReadFields(input, n, <<"FileSize", "Reserved", "DataOffset">>,
                                [ZeroValue(RecHeader) EXCEPT !.Signature = b],
                                <<"Signature">>)
         IN  [rec |-> rest.rec, fields |-> rest.fields, consumed |-> rest.consumed,
              err |-> rest.err, sigBytes |-> n]

\* (s *ImageData) Read into a zero ImageData.
ImageDataRead(input) ==
    LET out == ReadFields(input, 0, <<"Width", "Height">>, ZeroValue(RecImageData), <<>>)
    IN  [rec |-> out.rec, fields |-> out.fields, consumed |-> out.consumed,
         err |-> out.err, sigBytes |-> 0]

\* What one call r.Read(b) with len(b) = size may return on a reader holding
\* avail bytes: nothing and io.EOF at the end, else between 1 and size bytes.
ReadCounts(size, avail) ==
    IF avail = 0 THEN {0}
    ELSE 1..(IF avail < size THEN avail ELSE size)

Uint32Values == {0, 1, 258}
SigBytes == {66, 77}
PixelBytes == {0, 255}

NoResult == [bytes |-> <<>>, fields |-> <<>>, err |-> NoErr]
NoRead   == [rec |-> <<>>, fields |-> <<>>, consumed |-> 0, err |-> NoErr,
             sigBytes |-> 0]

InitCodec ==
    /\ cRec \in {RecHeader, RecImageData}
    /\ IF cRec = RecHeader
       THEN \E n \in 0..MaxSigLen : \E sig \in [1..n -> SigBytes] :
            \E fs, rs, off \in Uint32Values :
                cVal = [Signature |-> sig, FileSize |-> fs, Reserved |-> rs,
                        DataOffset |-> off]
       ELSE \E n \in 0..MaxPixelLen : \E px \in [1..n -> PixelBytes] :
            \E w, h \in Uint32Values :
                cVal = [Width |-> w, Height |-> h, PixelData |-> px]
    /\ cPc = "start"
    /\ cWrite = NoResult
    /\ cInput = <<>>
    /\ cRead = NoRead
    /\ TemplateIdle /\ ExprIdle
    /\ ValidatorIdle /\ GenIdle /\ DriverIdle

WriteHeader ==
    /\ cPc = "start" /\ cRec = RecHeader
    /\ cWrite' = HeaderWrite(cVal)
    /\ cPc' = "written"
    /\ UNCHANGED <<cRec, cVal, cInput, cRead, templateVars, exprVars,
                   validatorVars, genVars, driverVars>>

WriteImageData ==
    /\ cPc = "start" /\ cRec = RecImageData
    /\ cWrite' = ImageDataWrite(cVal)
    /\ cPc' = "written"
    /\ UNCHANGED <<cRec, cVal, cInput, cRead, templateVars, exprVars,
                   validatorVars, genVars, driverVars>>

\* The bytes written are handed to a reader, whole or cut short.
Feed ==
    /\ cPc = "written"
    /\ \E k \in 0..Len(cWrite.bytes) : cInput' = SubSeq(cWrite.bytes, 1, k)
    /\ cPc' = "fed"
    /\ UNCHANGED <<cRec, cVal, cWrite, cRead, templateVars, exprVars,
                   validatorVars, genVars, driverVars>>

ReadHeader ==
    /\ cPc = "fed" /\ cRec = RecHeader
    /\ \E n \in ReadCounts(2, Len(cInput)) : cRead' = HeaderRead(cInput, n)
    /\ cPc' = "read"
    /\ UNCHANGED <<cRec, cVal, cWrite, cInput, templateVars, exprVars,
                   validatorVars, genVars, driverVars>>

ReadImageData ==
    /\ cPc = "fed" /\ cRec = RecImageData
    /\ cRead' = ImageDataRead(cInput)
    /\ cPc' = "read"
    /\ UNCHANGED <<cRec, cVal, cWrite, cInput, templateVars, exprVars,
                   validatorVars, genVars, driverVars>>

NextCodec == WriteHeader \/ WriteImageData \/ Feed \/ ReadHeader \/ ReadImageData

SpecCodec == InitCodec /\ [][NextCodec]_vars

(***************************************************************************)
(* Properties of the generated codecs.                                     *)
(***************************************************************************)
\* A value that agrees with the lengths the descriptor declares: a Signature
\* of 2 bytes, a PixelData of Width * Height * 3 bytes.
ConsistentValue ==
    IF cRec = RecHeader THEN Len(cVal.Signature) = 2
    ELSE Len(cVal.PixelData) = cVal.Width * cVal.Height * 3

\* C1: round trip.  For each generated record type and each value V that
\* agrees with the declared lengths, Read applied to all the bytes that Write
\* produced for V succeeds and yields a record equal to V in every field (no
\* field of Header or ImageData carries a condition).
C1_RoundTrip ==
    (cPc = "read" /\ ConsistentValue /\ cWrite.err = NoErr /\ cInput = cWrite.bytes)
        => (cRead.err = NoErr /\ cRead.rec = cVal)

\* C2: fixed-length integrity of Header.Signature, declared with length 2.  A
\* Read that succeeds has consumed exactly 2 bytes for it; a Write that
\* succeeds has emitted exactly 2 bytes for it; and a Write of a Signature
\* whose length is not 2 returns an error and emits no byte.
C2_FixedLengthIntegrity ==
    cRec = RecHeader =>
        /\ (cPc = "read" /\ cRead.err = NoErr) => cRead.sigBytes = 2
        /\ (cPc # "start" /\ cWrite.err = NoErr) =>
               Len(cWrite.bytes) = 2 + 4 * (Len(DeclaredFields(RecHeader)) - 1)
        /\ (cPc # "start" /\ Len(cVal.Signature) # 2) =>
               (cWrite.err # NoErr /\ cWrite.bytes = <<>>)

\* C3: order preservation.  A Write that succeeds has written, and a Read
\* that succeeds has read, every declared field of the record, in the declared
\* order, none skipped, duplicated or moved.
C3_DeclaredOrder ==
    /\ (cPc # "start" /\ cWrite.err = NoErr) => cWrite.fields = DeclaredFields(cRec)
    /\ (cPc = "read" /\ cRead.err = NoErr) => cRead.fields = DeclaredFields(cRec)

(***************************************************************************)
(* The drivers (main.go): runBootstrap and runGeneration over the files    *)
(* sources/<base>.yml, formats/<dir>/ and formats.json.                    *)
(***************************************************************************)
ToLower(c) ==
    IF IsUpper(c)
    THEN LowerLetters[CHOOSE i \in 1..Len(UpperLetters) : UpperLetters[i] = c]
    ELSE c

\* strings.ToLower
ToLowerStr(s) == [i \in 1..Len(s) |-> ToLower(s[i])]

\* The names runBootstrap derives from sources/<base>.yml.
OutputDirOf(base) == ToLowerStr(base)
PackageNameOf(base) == ToLowerStr(base)
FormatNameOf(base) == Title(PackageNameOf(base))

FormatConfig(base) ==
    [Name |-> FormatNameOf(base), YAMLFile |-> base,
     OutputDir |-> OutputDirOf(base), PackageName |-> PackageNameOf(base)]

\* The source files of the model, by base name, and the descriptors they hold.
SourceB == <<"b">>
SourceJ == <<"J">>
SourceNames == {SourceB, SourceJ}
DirNames == {OutputDirOf(base) : base \in SourceNames}

\* A descriptor that validates, one of its lengths being the placeholder, and
\* one with a hard error (a string field without length).
DescGood ==
    (RecA :> <<Field(FieldName, TUint32, EmptyStr, EmptyStr)>>)
    @@ (RecB :> <<Field(FieldName, TString, Ellipsis, EmptyStr)>>)
DescBad == (RecA :> <<Field(FieldName, TString, EmptyStr, EmptyStr)>>)
SourceDescriptors == {DescGood, DescBad}

\* An output directory: the reformed YAML files and the .go files it holds.
EmptyOut == [yml |-> <<>>, go |-> EmptyDir]

\* The reformed YAML at outputDir/base: absent, or one document.
YmlAt(out, dir, base) ==
    IF base \in DOMAIN out[dir].yml THEN {out[dir].yml[base]} ELSE {}

\* The entries of the configuration for a source YAML file.
ConfigsOf(cfgs, base) == {cfgs[i] : i \in {j \in 1..Len(cfgs) : cfgs[j].YAMLFile = base}}

\* ioutil.WriteFile(reformedYamlPath, ...) of ValidateAndReformYAML.
WriteYml(out, dir, base, doc) ==
    [out EXCEPT ![dir].yml =
        [b \in DOMAIN out[dir].yml \cup {base} |->
            IF b = base THEN doc ELSE out[dir].yml[b]]]

\* sort.Slice(configs, by Name) of saveConfig, as an insertion sort.
RECURSIVE InsertByName(_, _)
InsertByName(sorted, cfg) ==
    IF sorted = <<>> THEN <<cfg>>
    ELSE IF NameBefore(cfg.Name, Head(sorted).Name) THEN <<cfg>> \o sorted
    ELSE <<Head(sorted)>> \o InsertByName(Tail(sorted), cfg)

RECURSIVE SortByName(_)
SortByName(cfgs) ==
    IF cfgs = <<>> THEN <<>> ELSE InsertByName(SortByName(Tail(cfgs)), Head(cfgs))

\* The one element of a singleton set.
The(S) == CHOOSE x \in S : TRUE

\* The iteration without the `continue` after a failed validation: the
\* configuration is updated for every selected source.
BootstrapStepWithoutSkip(st, base, v) ==
    LET dir  == OutputDirOf(base)
        idx  == {i \in 1..Len(st.cfgs) : st.cfgs[i].YAMLFile = base}
        event == [op |-> "bootstrap", yamlFile |-> base, validated |-> TRUE,
                  validationErrors |-> v.validationErrors, err |-> v.err,
                  ymlBefore |-> YmlAt(st.out, dir, base),
                  ymlAfter |-> YmlAt(st.out, dir, base),
                  cfgBefore |-> ConfigsOf(st.cfgs, base),
                  configured |-> TRUE,
                  generated |-> FALSE, genInput |-> {}, genErr |-> NoErr]
    IN  [out |-> IF v.err THEN st.out ELSE WriteYml(st.out, dir, base, The(v.written)),
         cfgs |-> IF idx # {} THEN st.cfgs ELSE Append(st.cfgs, FormatConfig(base)),
         updated |-> TRUE,
         log |-> Append(st.log, [event EXCEPT !.ymlAfter =
                                     IF v.err THEN @ ELSE v.written])]

\* One iteration of the loop of runBootstrap (main.go lines 125-159) on the
\* state st = [out, cfgs, updated, log], v being what ValidateAndReformYAML
\* returns for the source file.
BootstrapStep(st, base, v) ==
    LET dir  == OutputDirOf(base)
        idx  == {i \in 1..Len(st.cfgs) : st.cfgs[i].YAMLFile = base}
        event == [op |-> "bootstrap", yamlFile |-> base, validated |-> TRUE,
                  validationErrors |-> v.validationErrors, err |-> v.err,
                  ymlBefore |-> YmlAt(st.out, dir, base),
                  ymlAfter |-> YmlAt(st.out, dir, base),
                  cfgBefore |-> ConfigsOf(st.cfgs, base),
                  configured |-> FALSE,
                  generated |-> FALSE, genInput |-> {}, genErr |-> NoErr]
    IN  IF v.err
        THEN [st EXCEPT !.log = Append(st.log, event)]
        ELSE [out |-> WriteYml(st.out, dir, base, The(v.written)),
              cfgs |-> IF idx # {}
                       THEN [i \in 1..Len(st.cfgs) |->
                                IF i \in idx
                                THEN [st.cfgs[i] EXCEPT !.OutputDir = dir,
                                                        !.PackageName = PackageNameOf(base)]
                                ELSE st.cfgs[i]]
                       ELSE Append(st.cfgs, FormatConfig(base)),
              updated |-> TRUE,
              log |-> Append(st.log, [event EXCEPT !.ymlAfter = v.written,
                                                   !.configured = TRUE])]

BootstrapOne(st, src, base) ==
    The({BootstrapStep(st, base, v) : v \in {ValidateAndReformYAML(src[base])}})

RECURSIVE BootstrapLoop(_, _, _)
BootstrapLoop(st, src, selected) ==
    IF selected = <<>> THEN st
    ELSE The({BootstrapLoop(next, src, Tail(selected)) :
                 next \in {BootstrapOne(st, src, Head(selected))}})

\* The order in which a range over the structs of a descriptor visits them,
\* given an order of all struct names.
RECURSIVE VisitOrder(_, _)
VisitOrder(order, names) ==
    IF order = <<>> THEN <<>>
    ELSE (IF Head(order) \in names THEN <<Head(order)>> ELSE <<>>)
         \o VisitOrder(Tail(order), names)

\* The test script generateTestScript writes to outputDir/<package>_test.go.
TestFileName(packageName) == packageName \o <<"_", "t", "e", "s", "t", ".", "g", "o">>
TestScript(structs) == [StructName |-> <<>>, Fields |-> <<>>, Tests |-> DOMAIN structs]

\* The second half of an iteration of the loop of runGeneration (main.go lines
\* 232-259): GenerateCode on the reformed YAML, whose result is gen, and, if it
\* succeeded and the user asks for it, the test script.
GenerateStep(st, cfg, event, structs, gen, wantTest) ==
    LET test == TestFileName(cfg.PackageName)
        go2  == IF gen.err = NoErr /\ wantTest
                THEN [f \in DOMAIN gen.dir \cup {test} |->
                         IF f = test THEN TestScript(structs) ELSE gen.dir[f]]
                ELSE gen.dir
    IN  [st EXCEPT !.out[cfg.OutputDir].go = go2,
                   !.log = Append(st.log, [event EXCEPT !.generated = TRUE,
                                                        !.genErr = gen.err])]

\* One iteration of the loop of runGeneration (main.go lines 211-262) for the
\* configuration entry cfg: the reset of the .go files, the validation on the
\* fly when the reformed YAML is missing (v is what ValidateAndReformYAML
\* returns for the source file), then GenerateCode on the reformed YAML.
GenerateOneWith(st, cfg, v, order, fail, wantTest) ==
    LET dir     == cfg.OutputDir
        base    == cfg.YAMLFile
        missing == YmlAt(st.out, dir, base) = {}
        cleared == [st EXCEPT !.out[dir].go = EmptyDir]
        event   == [op |-> "generation", yamlFile |-> base, validated |-> missing,
                    validationErrors |-> IF missing THEN v.validationErrors ELSE 0,
                    err |-> missing /\ v.err,
                    ymlBefore |-> YmlAt(st.out, dir, base),
                    ymlAfter |-> YmlAt(st.out, dir, base),
                    cfgBefore |-> ConfigsOf(st.cfgs, base),
                    configured |-> FALSE,
                    generated |-> FALSE, genInput |-> {}, genErr |-> NoErr]
    IN  IF missing /\ v.err
        THEN [cleared EXCEPT !.log = Append(st.log, event)]
        ELSE The({The({GenerateStep([cleared EXCEPT !.out[dir].yml = (base :> doc) @@ @],
                                    cfg,
                                    [event EXCEPT !.ymlAfter = {doc}, !.genInput = {doc}],
                                    DecodeYAML(doc), gen, wantTest) :
                          gen \in {EmitLoop(DecodeYAML(doc), fail,
                                            VisitOrder(order, DOMAIN doc),
                                            EmptyDir, <<>>)}}) :
                     doc \in IF missing THEN v.written ELSE YmlAt(st.out, dir, base)})

\* The iteration as the first version of runGeneration had it: GenerateCode is
\* called on the source YAML of the entry, which nothing has validated.
GenerateOneUnvalidated(st, src, cfg, order, fail, wantTest) ==
    LET dir   == cfg.OutputDir
        base  == cfg.YAMLFile
        event == [op |-> "generation", yamlFile |-> base, validated |-> FALSE,
                  validationErrors |-> 0, err |-> FALSE,
                  ymlBefore |-> YmlAt(st.out, dir, base),
                  ymlAfter |-> YmlAt(st.out, dir, base),
                  cfgBefore |-> ConfigsOf(st.cfgs, base),
                  configured |-> FALSE,
                  generated |-> FALSE, genInput |-> {MarshalYAML(src[base])},
                  genErr |-> NoErr]
    IN  The({GenerateStep([st EXCEPT !.out[dir].go = EmptyDir], cfg, event,
                          src[base], gen, wantTest) :
                gen \in {EmitLoop(src[base], fail, VisitOrder(order, DOMAIN src[base]),
                                  EmptyDir, <<>>)}})

GenerateOne(st, src, cfg, order, fail, wantTest) ==
    The({GenerateOneWith(st, cfg, v, order, fail, wantTest) :
            v \in {ValidateAndReformYAML(src[cfg.YAMLFile])}})

\* The loop of runGeneration over the selected entries; at position k of the
\* selection, env[k] gives the order of the map iteration, the failures
\* GenerateCode meets and the user's answer to the test script prompt.
RECURSIVE GenerationLoop(_, _, _, _, _)
GenerationLoop(st, src, selected, k, env) ==
    IF k > Len(selected) THEN st
    ELSE The({GenerationLoop(next, src, selected, k + 1, env) :
                 next \in {GenerateOne(st, src, selected[k], env[k].order,
                                       env[k].fail, env[k].wantTest)}})

\* The selections a user can make from a list: the non-empty sub-lists.
RECURSIVE SubLists(_)
SubLists(list) ==
    IF list = <<>> THEN {<<>>}
    ELSE LET rest == SubLists(Tail(list))
         IN  rest \cup {<<Head(list)>> \o r : r \in rest}

Selections(list) == SubLists(list) \ {<<>>}

\* What one GenerateCode call and the prompt after it can meet: no failure,
\* with either answer to the prompt, or the template failing on a struct that
\* the map iteration visits first or last.
Environments ==
    {[order |-> <<RecA, RecB>>, fail |-> [template |-> {}, write |-> {}],
      wantTest |-> t] : t \in BOOLEAN}
    \cup {[order |-> o, fail |-> [template |-> {RecB}, write |-> {}],
           wantTest |-> FALSE] : o \in RangeOrders({RecA, RecB})}

\* sort.Strings(yamlFiles): the source files in byte order.
RECURSIVE SortedFiles(_)
SortedFiles(names) ==
    IF names = {} THEN <<>>
    ELSE LET first == CHOOSE n \in names : \A m \in names \ {n} : NameBefore(n, m)
         IN  <<first>> \o SortedFiles(names \ {first})

Init ==
    /\ source \in [SourceNames -> SourceDescriptors]
    /\ outDir = [d \in DirNames |-> EmptyOut]
    /\ configs = <<>>
    /\ lastRun = <<>>
    /\ ValidatorIdle /\ CodecIdle /\ GenIdle

\* The user edits sources/<base>.yml.
EditSource ==
    /\ \E base \in DOMAIN source, d \in SourceDescriptors :
           /\ source[base] # d
           /\ source' = [source EXCEPT ![base] = d]
    /\ UNCHANGED <<outDir, configs, lastRun, validatorVars, codecVars, genVars>>

\* The user removes what an output directory holds.
CleanOutput ==
    /\ \E d \in DOMAIN outDir :
           /\ outDir[d] # EmptyOut
           /\ outDir' = [outDir EXCEPT ![d] = EmptyOut]
    /\ UNCHANGED <<source, configs, lastRun, validatorVars, codecVars, genVars>>

\* runBootstrap on the source files the user selects (sorted by path).
RunBootstrap ==
    /\ \E selected \in Selections(SortedFiles(DOMAIN source)) :
       \E st \in {BootstrapLoop([out |-> outDir, cfgs |-> configs,
                                  updated |-> FALSE, log |-> <<>>],
                                 source, selected)} :
               /\ outDir' = st.out
               /\ configs' = IF st.updated THEN SortByName(st.cfgs) ELSE configs
               /\ lastRun' = st.log
    /\ UNCHANGED <<source, validatorVars, codecVars, genVars>>

\* runGeneration on the configured formats the user selects.
RunGeneration ==
    /\ configs # <<>>
    /\ \E selected \in Selections(configs) :
       \E env \in [1..Len(selected) -> Environments] :
       \E st \in {GenerationLoop([out |-> outDir, cfgs |-> configs,
                                   updated |-> FALSE, log |-> <<>>],
                                  source, selected, 1, env)} :
               /\ outDir' = st.out
               /\ lastRun' = st.log
    /\ UNCHANGED <<source, configs, validatorVars, codecVars, genVars>>

Next == EditSource \/ CleanOutput \/ RunBootstrap \/ RunGeneration

Spec == Init /\ [][Next]_vars

\* The drivers on two source files whose base names differ in letter case
\* only, sources/b.yml and sources/B.yml: both get the directory formats/b.
SourcesAlike == {<<"b">>, <<"B">>}

InitAlike ==
    /\ source \in [SourcesAlike -> SourceDescriptors]
    /\ outDir = [d \in {OutputDirOf(base) : base \in SourcesAlike} |-> EmptyOut]
    /\ configs = <<>>
    /\ lastRun = <<>>
    /\ ValidatorIdle /\ CodecIdle /\ GenIdle

SpecAlike == InitAlike /\ [][Next]_vars

(***************************************************************************)
(* Properties of the drivers.                                              *)
(***************************************************************************)
\* C4: hard errors abort before any output.  In the last driver run, a
\* format whose validation counted a hard error got an error back, its
\* reformed YAML was not written, its configuration entry was neither added
\* nor updated (bootstrap) and GenerateCode was not invoked for it, so its
\* output directory holds no generated code (generation); and every
\* descriptor handed to GenerateCode, every reformed YAML on disk and every
\* generated file comes from a descriptor without validation errors.
C4_HardErrorsAbort ==
    /\ \A k \in 1..Len(lastRun) :
           LET e == lastRun[k]
           IN  /\ (e.validated /\ e.validationErrors > 0) =>
                      /\ e.err
                      /\ e.ymlAfter = e.ymlBefore
                      /\ ~e.configured
                      /\ ConfigsOf(configs, e.yamlFile) = e.cfgBefore
                      /\ ~e.generated
                      /\ e.op = "generation" =>
                             outDir[OutputDirOf(e.yamlFile)].go = EmptyDir
               /\ e.generated =>
                      \A doc \in e.genInput :
                          ValidateAndReformYAML(DecodeYAML(doc)).validationErrors = 0
    /\ \A d \in DirNames :
           /\ \A base \in DOMAIN outDir[d].yml :
                  ValidateAndReformYAML(DecodeYAML(outDir[d].yml[base])).validationErrors = 0
           /\ \A file \in DOMAIN outDir[d].go :
                  \A i \in 1..Len(outDir[d].go[file].Fields) :
                      ValidateField(outDir[d].go[file].Fields[i]).errors = 0

\* C4 witness: a generation run in which the validation of one format counted
\* hard errors while GenerateCode was invoked for another format.
C4_GenerationSkipsInvalid ==
    \E i, j \in 1..Len(lastRun) :
        /\ lastRun[i].op = "generation"
        /\ lastRun[i].validated
        /\ lastRun[i].validationErrors > 0
        /\ lastRun[j].generated

\* C25: in runBootstrap a selected source whose validation fails leaves the
\* configuration entries for that source as they were (none added, none
\* modified) and the loop goes on: every selected source is validated, every
\* one that validates is configured, and the configuration file is saved
\* exactly when at least one selected source validated.
C25_FailedSourceSkipped ==
    \A selected \in Selections(<<SourceJ, SourceB>>) :
    \A st \in {BootstrapLoop([out |-> outDir, cfgs |-> configs,
                              updated |-> FALSE, log |-> <<>>],
                             source, selected)} :
        LET failed(base) == ValidateAndReformYAML(source[base]).err
        IN  /\ Len(st.log) = Len(selected)
            /\ \A i \in 1..Len(selected) :
                   /\ st.log[i].yamlFile = selected[i]
                   /\ st.log[i].validated
                   /\ failed(selected[i]) =>
                          /\ ~st.log[i].configured
                          /\ ConfigsOf(st.cfgs, selected[i])
                                 = ConfigsOf(configs, selected[i])
                   /\ ~failed(selected[i]) =>
                          /\ st.log[i].configured
                          /\ \E cfg \in ConfigsOf(st.cfgs, selected[i]) :
                                 cfg.OutputDir = OutputDirOf(selected[i])
            /\ Len(st.cfgs) = Len(configs)
                   + Cardinality({i \in 1..Len(selected) :
                                     /\ ~failed(selected[i])
                                     /\ ConfigsOf(configs, selected[i]) = {}})
            /\ st.updated <=> \E i \in 1..Len(selected) : ~failed(selected[i])

\* C25 witness: a bootstrap run in which the first selected source failed
\* its validation and the second one was configured.
C25_SecondSourceConfigured ==
    /\ Len(lastRun) = 2
    /\ lastRun[1].op = "bootstrap" /\ lastRun[1].err
    /\ ConfigsOf(configs, lastRun[1].yamlFile) = {}
    /\ lastRun[2].configured
    /\ ConfigsOf(configs, lastRun[2].yamlFile) # {}

\* C29: output directories are disjoint.  runBootstrap gives different source
\* YAML files different output directories: in every configuration it
\* produces, no two configured formats share an output directory (so that a
\* reset or a generation for one format cannot touch the files of another).
C29_OutputDirsDisjoint ==
    \A i, j \in 1..Len(configs) :
        configs[i].YAMLFile # configs[j].YAMLFile
            => configs[i].OutputDir # configs[j].OutputDir

\* A step of runGeneration: the log of a generation run is left, the sources
\* and the configuration are as before, and the step is not the user
\* emptying a directory.
GenerationRan ==
    /\ source' = source /\ configs' = configs
    /\ lastRun' # <<>> /\ lastRun'[1].op = "generation"
    /\ ~CleanOutput

\* The output directory of a format holds the file of every record of its
\* reformed YAML: what a successful generation run leaves.
GeneratedEarlier(dir, base) ==
    \E doc \in YmlAt(outDir, dir, base) :
        \A r \in DOMAIN doc : GoFileName(r) \in DOMAIN outDir[dir].go

\* C26: a failed regeneration is not destructive.  When, in a run of
\* runGeneration, the validation or GenerateCode fails for a format whose
\* output directory holds the .go files of an earlier successful run, these
\* files are still in the directory after the run.
C26_FailedRegenerationKeepsCode ==
    [][GenerationRan =>
          \A k \in 1..Len(lastRun') :
              LET e   == lastRun'[k]
                  dir == OutputDirOf(e.yamlFile)
              IN  (/\ e.err \/ (e.generated /\ e.genErr # NoErr)
                   /\ GeneratedEarlier(dir, e.yamlFile))
                      => \A f \in DOMAIN outDir[dir].go :
                             f \in DOMAIN outDir'[dir].go]_vars

\* C27: runGeneration generates from a descriptor validated against the
\* current source.  In every run of runGeneration, after any bootstrap runs,
\* edits of the source YAML and generation runs, the reformed YAML handed to
\* GenerateCode is what ValidateAndReformYAML writes for the source YAML as
\* it is at the time of the run.
C27_GeneratedFromCurrentSource ==
    [][GenerationRan =>
          \A k \in 1..Len(lastRun') :
              lastRun'[k].generated =>
                  lastRun'[k].genInput
                      = ValidateAndReformYAML(source[lastRun'[k].yamlFile]).written]_vars

(***************************************************************************)
(* Key normalisation (validator.go): yaml.Unmarshal into a generic map and *)
(* lowercaseFieldKeysRecursive.                                            *)
(*                                                                         *)
(* A generic value is a scalar [scalar |-> s], a list [list |-> items] or  *)
(* a map [map |-> entries, keys |-> kind], entries being a function from   *)
(* the key strings and kind the reflect.Kind of the Go map's key type.     *)
(***************************************************************************)
Scalar(s) == [scalar |-> s]
List(items) == [list |-> items]
IsMap(data) == "map" \in DOMAIN data
IsList(data) == "list" \in DOMAIN data

\* reflect.String: the keys of a map[string]interface{};
\* reflect.Interface: the keys of a map[interface{}]interface{}.
KindString == "string"
KindInterface == "interface"

\* yaml.Unmarshal (yaml.v2) into `var genericData map[string]interface{}`: the
\* document's top-level mapping becomes a map[string]interface{}, every nested
\* mapping a map[interface{}]interface{}, every sequence a []interface{}.
RECURSIVE UnmarshalNode(_, _)
UnmarshalNode(node, kind) ==
    IF IsMap(node)
    THEN [map  |-> [k \in DOMAIN node.map |->
                        UnmarshalNode(node.map[k], KindInterface)],
          keys |-> kind]
    ELSE IF IsList(node)
    THEN List([i \in 1..Len(node.list) |->
                   UnmarshalNode(node.list[i], KindInterface)])
    ELSE node

Unmarshal(doc) == UnmarshalNode(doc, KindString)

KName == <<"n", "a", "m", "e">>

knownFieldKeys ==
    {KName,
     <<"t", "y", "p", "e">>,
     <<"d", "e", "s", "c", "r", "i", "p", "t", "i", "o", "n">>,
     <<"l", "e", "n", "g", "t", "h">>,
     <<"c", "o", "n", "d", "i", "t", "i", "o", "n">>,
     <<"t", "a", "g", "s">>}

\* The key an entry gets in newMap.  key.Kind() is the kind of the map's key
\* type: a key of a map[interface{}]interface{} has kind Interface, fails the
\* test `key.Kind() == reflect.String` and is kept as fmt.Sprintf("%v") prints
\* it.
NewKeyAnyKind(kind, keyStr) ==
    LET lowerKeyStr == ToLowerStr(keyStr)
    IN  IF lowerKeyStr \in knownFieldKeys THEN lowerKeyStr ELSE keyStr

NewKey(kind, keyStr) ==
    IF kind = KindString
    THEN LET lowerKeyStr == ToLowerStr(keyStr)
         IN  IF lowerKeyStr \in knownFieldKeys THEN lowerKeyStr ELSE keyStr
    ELSE keyStr

\* The functions that take each x of the domain of choices to a member of
\* choices[x].
RECURSIVE Choices(_)
Choices(choices) ==
    IF DOMAIN choices = {} THEN {<<>>}
    ELSE LET x == CHOOSE y \in DOMAIN choices : TRUE
         IN  {(x :> v) @@ rest :
                 v \in choices[x],
                 rest \in Choices([y \in DOMAIN choices \ {x} |-> choices[y]])}

\* lowercaseFieldKeysRecursive: the values it can return.  newMap is filled in
\* the iteration order of the Go map, so when two keys of one map get the same
\* new key the entry written last stays, and either can be last.
RECURSIVE lowercaseFieldKeysRecursive(_)
lowercaseFieldKeysRecursive(data) ==
    IF IsMap(data)
    THEN LET keys    == DOMAIN data.map
             newKeys == {NewKey(data.keys, k) : k \in keys}
         IN  {[map |-> newMap, keys |-> KindString] :
                 newMap \in Choices(
                     [nk \in newKeys |->
                         UNION {lowercaseFieldKeysRecursive(data.map[k]) :
                                   k \in {x \in keys : NewKey(data.keys, x) = nk}}])}
    ELSE IF IsList(data)
    THEN {List(newSlice) :
             newSlice \in Choices([i \in 1..Len(data.list) |->
                                      lowercaseFieldKeysRecursive(data.list[i])])}
    ELSE {data}

(***************************************************************************)
(* The documents handed to the normaliser.                                 *)
(***************************************************************************)
\* Most field entries of one record.
MaxEntries == 1

KStructs == <<"s", "t", "r", "u", "c", "t", "s">>
KFields  == <<"f", "i", "e", "l", "d", "s">>
CapName  == <<"N", "a", "m", "e">>
CapTags  == <<"T", "a", "g", "s">>

\* A field entry: the name key in one of two spellings, and possibly the keys
\* Type and Offset (Offset is no field attribute).
FieldEntries ==
    {[map |-> [k \in {nameKey} \cup extra |-> Scalar(k)]] :
        nameKey \in {KName, CapName},
        extra \in SUBSET {<<"T", "y", "p", "e">>, <<"O", "f", "f", "s", "e", "t">>}}

\* A record: `fields:` with a list of field entries.
RecordBodies ==
    {[map |-> (KFields :> List(entries))] :
        entries \in UNION {[1..n -> FieldEntries] : n \in 0..MaxEntries}}

\* The record names: one of them spells like a field attribute.
RecordNames == {<<"H">>, CapTags}

StructsMaps ==
    UNION {{[map |-> m] : m \in [names -> RecordBodies]} :
              names \in SUBSET RecordNames}

\* A document: `structs:`, and possibly the descriptor's name in one or both
\* of two spellings and the key Version, which the descriptor does not know.
Documents ==
    {[map |-> (KStructs :> structs)
              @@ [k \in top |-> Scalar(k)]] :
        structs \in StructsMaps,
        top \in SUBSET {KName, CapName, <<"V", "e", "r", "s", "i", "o", "n">>}}

NotRun == {}

InitNormalize ==
    /\ \E doc \in Documents : genericData = Unmarshal(doc)
    /\ lowerCasedData = NotRun
    /\ vInput = Idle /\ vRuns = Idle
    /\ CodecIdle /\ GenIdle /\ DriverIdle

\* Step 4 of ValidateAndReformYAML.
Normalize ==
    /\ lowerCasedData = NotRun
    /\ \E out \in lowercaseFieldKeysRecursive(genericData) :
           lowerCasedData' = {out}
    /\ UNCHANGED <<vInput, vRuns, genericData, codecVars, genVars, driverVars>>

NextNormalize == Normalize

SpecNormalize == InitNormalize /\ [][NextNormalize]_vars

(***************************************************************************)
(* Properties of the key normalisation.                                    *)
(***************************************************************************)
\* The keys of a generic value, each with the path of keys and list indexes
\* that leads to it.
RECURSIVE KeyPaths(_, _)
KeyPaths(data, prefix) ==
    IF IsMap(data)
    THEN UNION {{Append(prefix, [key |-> k])}
                \cup KeyPaths(data.map[k], Append(prefix, [key |-> k])) :
                    k \in DOMAIN data.map}
    ELSE IF IsList(data)
    THEN UNION {KeyPaths(data.list[i], Append(prefix, [idx |-> i])) :
                    i \in 1..Len(data.list)}
    ELSE {}

LastKey(path) == path[Len(path)].key

IsFieldKey(k) == ToLowerStr(k) \in knownFieldKeys

\* A key of a field entry: structs / record / fields / index / key.
InFieldEntry(path) ==
    /\ Len(path) = 5
    /\ path[1] = [key |-> KStructs]
    /\ path[3] = [key |-> KFields]
    /\ "idx" \in DOMAIN path[4]

\* C12: key normalisation.  In the value lowercaseFieldKeysRecursive returns,
\* at every nesting depth of maps and lists, every key that case-insensitively
\* equals name, type, description, length, condition or tags is in lowercase.
C12_FieldKeysLowercased ==
    \A out \in lowerCasedData :
        \A path \in KeyPaths(out, <<>>) :
            IsFieldKey(LastKey(path)) => LastKey(path) = ToLowerStr(LastKey(path))

IsRecordName(path) == Len(path) = 2 /\ path[1] = [key |-> KStructs]

C30_NormalisationDeterministic ==
    \A out \in lowerCasedData :
        lowercaseFieldKeysRecursive(genericData) = {out}

(***************************************************************************)
(* The Read block the struct template generates for one field: the         *)
(* conditional block (genTestBMP.go) and the dynamic-length blocks         *)
(* (docs/EnhancingExpressions.md).                                         *)
(***************************************************************************)
\* Longest input handed to a generated Read; largest length-expression result,
\* in halves.
MaxInputLen == 4
MaxHalves == 4

\* What expression.Evaluate returns: a Go type and, for a number, its value
\* counted in halves (a float64 of halves 3 is 1.5); type "error" stands for
\* errEval != nil.
EvalResult(type, halves) == [type |-> type, halves |-> halves]

EvalResults ==
    {EvalResult("float64", h) : h \in (0 - MaxHalves)..MaxHalves}
    \cup {EvalResult("int", 2 * n) : n \in {0 - 1, 0, 2}}
    \cup {EvalResult(t, 0) : t \in {"string", "bool", "error"}}

\* The cases of the type switch that converts evalResult to int.
NumericTypes == {"float64", "float32", "int", "int64", "int32", "uint", "uint64",
                 "uint32", "uint16", "uint8"}

\* int(v): the conversion drops the fraction (truncation toward zero).
ToInt(v) == IF v.halves >= 0 THEN v.halves \div 2 ELSE 0 - ((0 - v.halves) \div 2)

ReadResult(err, consumed, value) == [err |-> err, consumed |-> consumed, value |-> value]

\* The zero value of the struct field.
ZeroOf(f) == IF f.type = TUint32 THEN 0 ELSE <<>>

\* buf = make([]byte, size); io.ReadFull(r, buf).  A string field is assigned
\* only after a full read, a []byte field is the buffer itself.
ReadFull(f, input, size) ==
    IF Len(input) >= size
    THEN ReadResult(NoErr, size, SubSeq(input, 1, size))
    ELSE ReadResult(IF input = <<>> THEN ErrEOF ELSE ErrUnexpectedEOF,
                    Len(input),
                    IF f.type = TString THEN <<>>
                    ELSE [i \in 1..size |-> IF i <= Len(input) THEN input[i] ELSE 0])

\* binary.Read of a uint32 field.
BinaryRead(input) ==
    LET r == ReadUint32(input, 0) IN ReadResult(r.err, r.pos, r.val)

\* The dynamic-length block of a string / []byte field.
DynamicLengthRead(f, evalResult, input) ==
    IF evalResult.type = "error"
    THEN ReadResult("evaluating length expression", 0, ZeroOf(f))
    ELSE IF evalResult.type \notin NumericTypes
    THEN ReadResult("evaluated to non-numeric type", 0, ZeroOf(f))
    ELSE LET size == ToInt(evalResult)
         IN  IF size < 0 THEN ReadResult("evaluated to negative size", 0, ZeroOf(f))
             ELSE ReadFull(f, input, size)

\* The block of a field without condition.
UnconditionalFieldRead(f, evalResult, input) ==
    IF f.type = TUint32 THEN BinaryRead(input)
    ELSE IF IsExpressionLength(f) THEN DynamicLengthRead(f, evalResult, input)
    ELSE ReadFull(f, input, Atoi(f.length).val)

\* The block of a conditional field: `if <condition> { ... }` around the read
\* of a uint32 or of a []byte with an expression length (the expression is
\* pasted as Go code into `size := int(...)`); a []byte with a fixed length
\* has an empty body and every other type returns an error.
ConditionalFieldRead(f, cond, evalResult, input) ==
    IF ~cond THEN ReadResult(NoErr, 0, ZeroOf(f))
    ELSE IF f.type = TUint32 THEN BinaryRead(input)
    ELSE IF f.type = TBytes
    THEN IF IsExpressionLength(f)
         THEN IF evalResult.type \notin NumericTypes
              THEN ReadResult("does not compile", 0, ZeroOf(f))
              ELSE IF ToInt(evalResult) < 0
              THEN ReadResult("panic: makeslice: len out of range", 0, ZeroOf(f))
              ELSE ReadFull(f, input, ToInt(evalResult))
         ELSE ReadResult(NoErr, 0, ZeroOf(f))
    ELSE ReadResult("unsupported conditional type", 0, ZeroOf(f))

\* {{if isConditional $field}} ... {{else}} ... {{end}}
FieldRead(f, cond, evalResult, input) ==
    IF IsConditional(f) THEN ConditionalFieldRead(f, cond, evalResult, input)
    ELSE UnconditionalFieldRead(f, evalResult, input)

\* A uint32 field, and string / []byte fields with a fixed and with an
\* expression length, each with and without a condition.
TemplateFields ==
    {Field(FieldName, TUint32, EmptyStr, c) : c \in {EmptyStr, CondExpression}}
    \cup {Field(FieldName, t, l, c) :
             t \in {TString, TBytes}, l \in {LenTwo, LenExpression},
             c \in {EmptyStr, CondExpression}}

InitTemplate ==
    /\ tField \in TemplateFields
    /\ \E n \in 0..MaxInputLen : tInput \in [1..n -> SigBytes]
    /\ tRuns = <<>>
    /\ SimpleBmpIdle /\ ExprIdle
    /\ ValidatorIdle /\ GenIdle /\ DriverIdle

\* Read reaches the field: the condition and the length expression have the
\* values the fields decoded before give them.
ReadField ==
    /\ tRuns = <<>>
    /\ \E cond \in BOOLEAN, evalResult \in EvalResults :
           tRuns' = <<[cond |-> cond, evalResult |-> evalResult,
                       read |-> FieldRead(tField, cond, evalResult, tInput)]>>
    /\ UNCHANGED <<tField, tInput, cRec, cVal, cPc, cWrite, cInput, cRead,
                   exprVars, validatorVars, genVars, driverVars>>

NextTemplate == ReadField

SpecTemplate == InitTemplate /\ [][NextTemplate]_vars

\* C14: conditional fields.  The generated Read of a field with a condition
\* consumes no byte, leaves the zero value and returns no error when the
\* condition is false, and when it is true does exactly what the Read of the
\* same field without condition does, for every field type.
C14_ConditionalRead ==
    \A k \in 1..Len(tRuns) :
        IsConditional(tField) =>
            IF tRuns[k].cond
            THEN tRuns[k].read =
                     UnconditionalFieldRead([tField EXCEPT !.condition = EmptyStr],
                                            tRuns[k].evalResult, tInput)
            ELSE tRuns[k].read = ReadResult(NoErr, 0, ZeroOf(tField))

\* C15: length-expression result.  In the generated Read of a string / []byte
\* field with an expression length, a result that is negative or not a number
\* returns an error and consumes no byte; any other result is truncated
\* toward zero to N, and exactly N bytes are read, a shorter input being an
\* error.
C15_LengthResult ==
    \A k \in 1..Len(tRuns) :
        (~IsConditional(tField) /\ tField.type \in {TString, TBytes}
            /\ IsExpressionLength(tField)) =>
            LET result == tRuns[k].evalResult
                read   == tRuns[k].read
            IN  IF result.type \notin NumericTypes \/ result.halves < 0
                THEN read.err # NoErr /\ read.consumed = 0
                ELSE IF Len(tInput) >= result.halves \div 2
                THEN /\ read.err = NoErr
                     /\ read.consumed = result.halves \div 2
                     /\ Len(read.value) = result.halves \div 2
                ELSE read.err # NoErr

(***************************************************************************)
(* The expression function CalculatePaddedSize (utils/get_expressions.go). *)
(* An argument is a value of the evaluator: a Go type and a number counted *)
(* in halves.                                                              *)
(***************************************************************************)
\* Largest width and height handed to the function.
MaxWidth == 4
MaxHeight == 2

\* Go's integer remainder: its sign is the sign of the dividend.
GoRem(a, b) == IF a >= 0 THEN a % b ELSE 0 - ((0 - a) % b)

\* paddingPerRow, without the outer `% 4`.
PaddingUnwrapped(bytesPerRow) == 4 - GoRem(bytesPerRow, 4)

\* paddingPerRow := (4 - (bytesPerRow % 4)) % 4
PaddingPerRow(bytesPerRow) == GoRem(4 - GoRem(bytesPerRow, 4), 4)

Failed(msg) == [err |-> msg, val |-> EvalResult("nil", 0),
                bytesPerRow |-> 0, paddingPerRow |-> 0]

CalculatePaddedSize(args) ==
    IF Len(args) # 3 THEN Failed("expects 3 arguments")
    ELSE IF args[1].type # "float64" THEN Failed("arg 1 (width) must be numeric")
    ELSE IF args[2].type # "float64" THEN Failed("arg 2 (height) must be numeric")
    ELSE IF args[3].type # "float64"
    THEN Failed("arg 3 (bitsPerPixel) must be numeric")
    ELSE IF args[3].halves = 0 THEN Failed("bitsPerPixel cannot be zero")
    ELSE LET \* int(bitsPerPixel / 8): the quotient, truncated toward zero
             bytesPerPixel == IF args[3].halves >= 0 THEN args[3].halves \div 16
                              ELSE 0 - ((0 - args[3].halves) \div 16)
             bytesPerRow   == ToInt(args[1]) * bytesPerPixel
             paddingPerRow == PaddingPerRow(bytesPerRow)
             paddedRowSize == bytesPerRow + paddingPerRow
             totalSize     == ToInt(args[2]) * paddedRowSize
         IN  IF bytesPerPixel <= 0 THEN Failed("unsupported bitsPerPixel")
             ELSE [err |-> NoErr, val |-> EvalResult("float64", 2 * totalSize),
                   bytesPerRow |-> bytesPerRow, paddingPerRow |-> paddingPerRow]

\* The bits per pixel tried: none, less than a byte, whole bytes, a byte and
\* a half, negative.
BitsPerPixel == {0, 4, 8, 12, 24, 32, 0 - 8}

\* Argument lists: float64 triples, whole and fractional; an int or a string
\* where a float64 is expected; a list of two.
ArgumentLists ==
    {<<EvalResult("float64", w), EvalResult("float64", h), EvalResult("float64", b)>> :
        w \in (0 - 2)..(2 * MaxWidth), h \in (0 - 2)..(2 * MaxHeight),
        b \in {2 * x : x \in BitsPerPixel} \cup {17}}
    \cup {[i \in 1..3 |-> EvalResult(IF i = k THEN t ELSE "float64", 4)] :
             k \in 1..3, t \in {"int", "string"}}
    \cup {<<EvalResult("float64", 4), EvalResult("float64", 4)>>}

InitExpr ==
    /\ eArgs \in ArgumentLists
    /\ eResult = {}
    /\ SimpleBmpIdle /\ TemplateIdle
    /\ ValidatorIdle /\ GenIdle /\ DriverIdle

\* govaluate calls the function with the evaluated arguments.
CallFunction ==
    /\ eResult = {}
    /\ eResult' = {CalculatePaddedSize(eArgs)}
    /\ UNCHANGED <<eArgs, cRec, cVal, cPc, cWrite, cInput, cRead, templateVars,
                   validatorVars, genVars, driverVars>>

NextExpr == CallFunction

SpecExpr == InitExpr /\ [][NextExpr]_vars

\* The arguments are whole numbers.
WholeArguments == \A i \in 1..Len(eArgs) : eArgs[i].halves % 2 = 0

TypeRejections == {"arg 1 (width) must be numeric", "arg 2 (height) must be numeric",
                   "arg 3 (bitsPerPixel) must be numeric"}

\* C21: CalculatePaddedSize returns an error and no value when it is called
\* with a number of arguments other than 3, with an argument that is not a
\* number, or with bitsPerPixel 0; a call with three numbers and a non-zero
\* bitsPerPixel is never rejected for the types of its arguments.
C21_ArgumentsValidated ==
    \A r \in eResult :
        LET numeric(i) == eArgs[i].type \in NumericTypes
        IN  /\ (\/ Len(eArgs) # 3
                \/ \E i \in 1..Len(eArgs) : ~numeric(i)
                \/ eArgs[3].halves = 0)
                   => r.err # NoErr /\ r.val = EvalResult("nil", 0)
            /\ (/\ Len(eArgs) = 3
                /\ \A i \in 1..3 : numeric(i)
                /\ eArgs[3].halves # 0)
                   => r.err \notin TypeRejections

(***************************************************************************)
(* The output directory on disk: GenerateCode with its stub file           *)
(* (generator/generator.go, unnamed/part_001) and the two versions of      *)
(* reset (utils/reset_generator.go, reset_generator.go).                   *)
(*                                                                         *)
(* A directory is absent ({}) or present ({entries}), entries mapping an   *)
(* entry name to a file or a sub-directory.                                *)
(***************************************************************************)
HasSuffix(str, suffix) ==
    /\ Len(str) >= Len(suffix)
    /\ SubSeq(str, Len(str) - Len(suffix) + 1, Len(str)) = suffix

TrimSuffix(str, suffix) ==
    IF HasSuffix(str, suffix) THEN SubSeq(str, 1, Len(str) - Len(suffix)) ELSE str

GoSuffix   == <<".", "g", "o">>
StubSuffix == <<"_", "s", "t", "u", "b", "s", ".", "g", "o">>

\* strings.TrimSuffix(stubFilePath, ".go") + "._go"
RenamedPath(stubFilePath) == TrimSuffix(stubFilePath, GoSuffix) \o <<".", "_", "g", "o">>

\* strings.TrimSuffix(stubFilePath, "._go") + ".go"
OriginalPath(stubFilePath) ==
    TrimSuffix(stubFilePath, <<".", "_", "g", "o">>) \o GoSuffix

File(content) == [IsDir |-> FALSE, Content |-> content]
SubDirectory  == [IsDir |-> TRUE, Content |-> "directory"]

\* entry.IsDir(); a file GenerateCode wrote holds the rendered template.
IsDir(entry) == "IsDir" \in DOMAIN entry /\ entry.IsDir

\* os.MkdirAll(dir): the entries of the directory, created empty if absent.
MkdirAll(dir) == IF dir = {} THEN <<>> ELSE The(dir)

\* os.Stat(dir/name) succeeds.
Exists(dir, name) == \E entries \in dir : name \in DOMAIN entries

\* os.Remove(dir/name) of an existing file.
Remove(entries, name) == [n \in DOMAIN entries \ {name} |-> entries[n]]

\* os.Rename(dir/from, dir/to) of an existing file: replaces dir/to.
Rename(entries, from, to) ==
    [n \in (DOMAIN entries \ {from}) \cup {to} |->
        IF n = to THEN entries[from] ELSE entries[n]]

\* The entries an output directory can hold before a call.
YamlName   == <<"b", ".", "y", "m", "l">>
StubName   == <<"b">> \o StubSuffix
DirNamedGo == <<"v", ".", "g", "o">>
RecH       == <<"h">>

EntryUniverse ==
    (YamlName :> File("reformed YAML"))
    @@ (StubName :> File("stub"))
    @@ (RenamedPath(StubName) :> File("renamed stub"))
    @@ (TestFileName(<<"b">>) :> File("test"))
    @@ (GoFileName(RecH) :> File("generated earlier"))
    @@ (DirNamedGo :> SubDirectory)

\* The descriptor the reformed YAML of the directory holds, and those a YAML
\* file elsewhere can hold: no record, one record, two records.
YamlStructs == (RecH :> <<<<"W">>>>)
OtherStructs == {<<>>, YamlStructs, YamlStructs @@ (<<"b">> :> <<<<"P">>>>)}

ErrRead == "error reading YAML file"

\* GenerateCode(yamlFile, outputDir, packageName, targetStubName) on the
\* directory dir.  call.yamlInDir tells whether yamlFile is the reformed YAML
\* inside outputDir; call.structs is what the YAML file holds; call.fail and
\* call.order are the failures and the map iteration order the emission
\* loop meets.  renaming selects the version of unnamed/part_001, which
\* renames a *_stubs.go file to *_stubs._go for the time of the run.
GenerateCodeOn(dir, call, renaming) ==
    LET renamed == /\ renaming
                   /\ HasSuffix(call.targetStubName, StubSuffix)
                   /\ Exists(dir, call.targetStubName)
        dir1 == IF renamed
                THEN {Rename(The(dir), call.targetStubName,
                             RenamedPath(call.targetStubName))}
                ELSE dir
        stubFilePath == IF renamed THEN RenamedPath(call.targetStubName)
                        ELSE call.targetStubName
        \* the deferred rename back to the original name
        Return(d, err) ==
            [err |-> err,
             dir |-> IF renamed /\ Exists(d, stubFilePath)
                     THEN {Rename(The(d), stubFilePath, OriginalPath(stubFilePath))}
                     ELSE d]
    IN  IF call.yamlInDir /\ ~Exists(dir1, YamlName)
        THEN Return(dir1, ErrRead)
        ELSE LET out == EmitLoop(call.structs, call.fail, call.order,
                                 MkdirAll(dir1), <<>>)
             IN  IF out.err # NoErr THEN Return({out.dir}, out.err)
                 ELSE \* the stub removal: os.Stat, then os.Remove
                      IF call.targetStubName = <<>>
                      THEN \* the stub path is the output directory itself:
                           \* os.Remove removes a directory that is empty
                           Return(IF DOMAIN out.dir = {} THEN {} ELSE {out.dir}, NoErr)
                      ELSE IF stubFilePath \in DOMAIN out.dir
                      THEN Return({Remove(out.dir, stubFilePath)}, NoErr)
                      ELSE Return({out.dir}, NoErr)

\* The loop of reset over the directory entries: every entry that is no
\* directory, ends in ".go" and is not in keep is removed.
RemoveGoFiles(entries, keep) ==
    [n \in {m \in DOMAIN entries :
               ~(~IsDir(entries[m]) /\ HasSuffix(m, GoSuffix) /\ m \notin keep)} |->
        entries[n]]

\* utils.Reset(targetDir)
UtilsReset(dir) == {RemoveGoFiles(MkdirAll(dir), {})}

\* reset(targetDir, stubFilePath, testFilePath), both paths naming entries of
\* targetDir: a renamed stub is renamed back first.
reset(dir, stubFilePath, testFilePath) ==
    LET renamedPath == RenamedPath(stubFilePath)
        dir1 == IF HasSuffix(stubFilePath, StubSuffix) /\ Exists(dir, renamedPath)
                THEN {Rename(The(dir), renamedPath, stubFilePath)}
                ELSE dir
    IN  {RemoveGoFiles(MkdirAll(dir1), {stubFilePath, testFilePath})}

\* The calls of GenerateCode tried on a directory.
Calls ==
    {[yamlInDir |-> y, structs |-> st, targetStubName |-> stub,
      fail |-> [template |-> t, write |-> {}], order |-> o] :
        y \in BOOLEAN, st \in OtherStructs, stub \in {<<>>, StubName},
        t \in {{}, {RecH}}, o \in RangeOrders({RecH, <<"b">>})}

GenerateCalls ==
    {[c EXCEPT !.order = VisitOrder(c.order, DOMAIN c.structs)] :
        c \in {k \in Calls : /\ k.yamlInDir => k.structs = YamlStructs
                             /\ k.fail.template \subseteq DOMAIN k.structs}}

InitFiles ==
    /\ \E names \in SUBSET DOMAIN EntryUniverse :
           fDir \in {{}, {[n \in names |-> EntryUniverse[n]]}}
    /\ fLast = {}
    /\ EmitIdle
    /\ ValidatorIdle /\ CodecIdle /\ DriverIdle

Called(op, call, err, result) ==
    /\ fDir' = result
    /\ fLast' = {[op |-> op, call |-> call, err |-> err,
                  before |-> fDir, after |-> result]}
    /\ UNCHANGED <<gStructs, gFail, gDir, gRuns, validatorVars, codecVars, driverVars>>

\* generator.GenerateCode (generator/generator.go)
GenerateCodeWithStub ==
    /\ fLast = {}
    /\ \E call \in GenerateCalls :
       \E out \in {GenerateCodeOn(fDir, call, FALSE)} :
           Called("GenerateCode", call, out.err, out.dir)

\* GenerateCode as unnamed/part_001 has it
GenerateCodeRenamingStub ==
    /\ fLast = {}
    /\ \E call \in GenerateCalls :
       \E out \in {GenerateCodeOn(fDir, call, TRUE)} :
           Called("GenerateCode", call, out.err, out.dir)

\* utils.Reset(config.OutputDir)
ResetTargetDir ==
    /\ fLast = {}
    /\ Called("Reset", [stubFilePath |-> <<>>, testFilePath |-> <<>>], NoErr,
              UtilsReset(fDir))

\* reset(config.OutputDir, config.TargetStub, config.TestFile)
ResetPreserving ==
    /\ fLast = {}
    /\ \E stub \in {<<>>, StubName}, test \in {<<>>, TestFileName(<<"b">>)} :
           Called("reset", [stubFilePath |-> stub, testFilePath |-> test], NoErr,
                  reset(fDir, stub, test))

NextFiles ==
    \/ GenerateCodeWithStub
    \/ GenerateCodeRenamingStub
    \/ ResetTargetDir
    \/ ResetPreserving

SpecFiles == InitFiles /\ [][NextFiles]_vars

\* C23: the generator never removes the stub file.  When the file named by
\* targetStubName exists in the output directory before GenerateCode runs,
\* it exists there under the same name after GenerateCode has returned,
\* with or without an error.
C23_StubFileKept ==
    \A r \in fLast :
        (/\ r.op = "GenerateCode"
         /\ r.call.targetStubName # <<>>
         /\ Exists(r.before, r.call.targetStubName))
            => Exists(r.after, r.call.targetStubName)

\* C28: GenerateCode never removes the output directory.  After a call that
\* returned no error, whatever targetStubName is (the empty name included)
\* and whatever records the descriptor has (none included), the output
\* directory exists.
C28_OutputDirKept ==
    \A r \in fLast :
        (r.op = "GenerateCode" /\ r.err = NoErr) => r.after # {}

\* The entries a reset is to remove: the files (no directories) whose name
\* ends in ".go", the named stub and test files excepted.
GoFilesOf(entries, keep) ==
    {n \in DOMAIN entries :
        ~IsDir(entries[n]) /\ HasSuffix(n, GoSuffix) /\ n \notin keep}

\* C24: a reset removes exactly the files directly inside the target
\* directory whose names end in ".go" (the three-argument version: except
\* the named stub and test files) and changes nothing else: every other
\* entry is there afterwards, unchanged, no entry is added, and the target
\* directory exists.
C24_ResetRemovesGoFilesOnly ==
    \A r \in fLast :
        r.op \in {"Reset", "reset"} =>
            /\ r.after # {}
            /\ \A before \in {MkdirAll(r.before)}, after \in r.after :
                   LET gone == GoFilesOf(before, {r.call.stubFilePath,
                                                  r.call.testFilePath})
                   IN  /\ DOMAIN after = DOMAIN before \ gone
                       /\ \A n \in DOMAIN after : after[n] = before[n]

====
